---- MODULE Spec2Model ----
(***************************************************************************)
(* Conversational tool-orchestration loop (tool_orchestrator.py,           *)
(* conversational_chat.py, chat_session.py) and the bounded-concurrency    *)
(* enrichment engine (enrichment.py) of the sales-automation backend.      *)
(*                                                                         *)
(* Spec       : one user turn of ConversationalChatService.stream_chat     *)
(*              driving ToolOrchestrator.execute_and_continue.             *)
(* FairSpec   : Spec with weak fairness of the turn's steps (every LLM     *)
(*              call and every handler call returns or raises).            *)
(* EnrichSpec : one call of CompanyEnrichmentService.enrich_companies_batch*)
(*              with its per-record tasks interleaved by the event loop.   *)
(* SessionSpec: ChatSessionService.add_message and                         *)
(*              get_conversation_context called in any order on a session. *)
(* ArchiveSpec: Spec on a session that may be archived at any moment.      *)
(* DisconnectSpec: Spec with a client that may go away at any moment.      *)
(* OverlapSpec: two stream requests in progress on the same session.       *)
(* ToolCallSpec: ToolOrchestrator.execute_tool called with any tool_use.   *)
(* EnrichFairSpec: EnrichSpec with weak fairness of the tasks' steps.      *)
(* RecordSpec : CompanyEnrichmentService.enrich_company called repeatedly  *)
(*              on one record, days passing between the calls.             *)
(***************************************************************************)
EXTENDS Integers, Sequences, FiniteSets, TLC

\* ------------------------------------------------------------------ bounds
\* largest max_iterations argument explored (stream_chat passes 5)
MaxIterationsArg == 2
\* largest number of tool_use blocks the model may issue in one user turn
MaxToolCalls == 2
\* largest batch handed to enrich_companies_batch
MaxCompanies == 2
\* largest max_concurrent handed to enrich_companies_batch
MaxConcurrentArg == 1
\* largest number of ChatMessage rows a session holds in SessionSpec
MaxStoredMessages == 3
\* largest max_messages argument handed to get_conversation_context
MaxMessagesArg == 3
\* largest number of enrich_company calls made on one record in RecordSpec
MaxEnrichCalls == 3

\* ------------------------------------------------------------------ state
VARIABLES
    \* ---- ConversationalChatService.stream_chat / ToolOrchestrator.__init__
    tools_mode,            \* "all" | "prospecting"
    max_iterations,        \* argument of execute_and_continue
    pc,                    \* position of the turn
    \* ---- locals of execute_and_continue
    iteration,
    tool_uses,             \* tool_use blocks of the current model turn
    tool_idx,              \* index of the tool_use being processed
    tool_results,          \* tool_result entries of the current iteration
    current_messages,      \* running message list sent to the LLM
    total_input_tokens,
    total_output_tokens,
    exec_outcome,          \* what execute_tool did for the current tool_use
    \* ---- ToolOrchestrator fields and storage
    pending_apollo_results,\* 0 = None, else the tool_use id whose results it holds
    tool_executions,       \* ToolExecution rows, in commit order
    session,               \* the ChatSession row
    messages,              \* ChatMessage rows of the session, in creation order
    icps,                  \* number of ICP rows created
    \* ---- what the client and the collaborators have seen
    events,                \* SSE events yielded by stream_chat, in order
    llm_calls,             \* number of client.messages.stream calls made
    handler_runs,          \* tool_use ids for which a handler body was entered
    next_tool_id,          \* id the LLM gives its next tool_use block
    \* ---- CompanyEnrichmentService.enrich_companies_batch
    companies,             \* the batch: sequence of company records
    max_concurrent,
    force,
    semaphore,             \* asyncio.Semaphore._value
    task_pc,               \* position of each enrich_with_semaphore task
    results,               \* what asyncio.gather collected, by position
    fetch_raised,          \* by position: did every page fetch of the record raise
    final_results,         \* list returned by enrich_companies_batch
    batch_pc,
    enrich_calls,          \* the enrich_company calls made on a record, in order
    \* ---- ChatSessionService.get_conversation_context
    context,               \* the list the last call returned
    context_call,          \* that call: its max_messages and the rows stored then
    \* ---- POST /sessions/{uuid}/stream requests on one session
    req_pc,                \* position of each request's stream_chat
    journal                \* what the requests did to the session, in order

loopVars == <<tools_mode, max_iterations, pc, iteration, tool_uses, tool_idx,
              tool_results, current_messages, total_input_tokens,
              total_output_tokens, exec_outcome, pending_apollo_results,
              tool_executions, session, messages, icps, events, llm_calls,
              handler_runs, next_tool_id>>

batchVars == <<companies, max_concurrent, force, semaphore, task_pc, results,
               fetch_raised, final_results, batch_pc, enrich_calls>>

serviceVars == <<context, context_call>>

overlapVars == <<req_pc, journal>>

vars == <<loopVars, batchVars, serviceVars, overlapVars>>

\* ------------------------------------------------------------------ tools
SAVE_ICP_TOOL == "save_icp"
SEARCH_APOLLO_TOOL == "search_apollo"
ENRICH_COMPANIES_TOOL == "enrich_companies"
VERIFY_EMAILS_TOOL == "verify_emails"
GET_SESSION_CONTEXT_TOOL == "get_session_context"
UPDATE_ICP_DRAFT_TOOL == "update_icp_draft"

ALL_TOOLS == {SAVE_ICP_TOOL, SEARCH_APOLLO_TOOL, ENRICH_COMPANIES_TOOL,
              VERIFY_EMAILS_TOOL, GET_SESSION_CONTEXT_TOOL, UPDATE_ICP_DRAFT_TOOL}

PROSPECTING_TOOLS == {SAVE_ICP_TOOL, SEARCH_APOLLO_TOOL,
                      GET_SESSION_CONTEXT_TOOL, UPDATE_ICP_DRAFT_TOOL}

\* a name no catalogue holds
UnknownTool == "delete_everything"

\* ToolOrchestrator.__init__: self.tools
SelfTools(mode) == IF mode = "prospecting" THEN PROSPECTING_TOOLS ELSE ALL_TOOLS

\* The tool_input dicts the model may send, by tool name.  A dict is
\* represented by the one feature of it the handlers branch on.
ToolInputs(name) ==
    CASE name = SAVE_ICP_TOOL -> {"full", "no_name"}
      [] name = SEARCH_APOLLO_TOOL -> {"people", "companies", "bogus_type"}
      [] name = ENRICH_COMPANIES_TOOL -> {"all", "ids", "no_company_ids"}
      [] name = UPDATE_ICP_DRAFT_TOOL -> {"updates", "no_updates"}
      [] OTHER -> {"empty"}

\* What the collaborators a handler calls may do during the call: the
\* prospecting API answers with at least one result or raises; the Company
\* query of enrich_companies finds no row, or rows the engine then enriches.
Environments(name, input) ==
    CASE name = SEARCH_APOLLO_TOOL /\ input \in {"people", "companies"} ->
            {"api_ok", "api_raises"}
      [] name = ENRICH_COMPANIES_TOOL /\ input = "ids" ->
            {"not_found", "found_completed", "found_failed"}
      [] OTHER -> {"none"}

ToolNames == ALL_TOOLS \cup {UnknownTool}

\* ------------------------------------------------------------------ storage
NoSearch == [type |-> "none", by |-> 0]

\* ChatSessionService.create_session
NewSession ==
    [total_claude_input_tokens |-> 0,
     total_claude_output_tokens |-> 0,
     total_cost_usd |-> 0,              \* in millionths of a dollar
     status |-> "active",
     icp_id |-> 0,                      \* 0 = NULL
     current_icp_draft |-> "none",      \* "none" | "draft"
     last_apollo_search |-> NoSearch,   \* session_metadata["last_apollo_search"]
     last_enrichment |-> -1]            \* session_metadata["last_enrichment"].completed, -1 = absent

\* ChatSessionService.add_message: the row, and the session's counters.
\* content: the message's text, one distinct text per message, numbered in
\* creation order
AddMessageRow(msgs, role, inTok, outTok) ==
    Append(msgs, [role |-> role, content |-> Len(msgs) + 1,
                  input_tokens |-> inTok, output_tokens |-> outTok])

\* an update of the counters that leaves the input tokens out
AddMessageSessionOutputOnly(s, inTok, outTok) ==
    [s EXCEPT !.total_claude_output_tokens = @ + outTok,
              !.total_cost_usd = @ + outTok * 15]

AddMessageSession(s, inTok, outTok) ==
    [s EXCEPT !.total_claude_input_tokens = @ + inTok,
              !.total_claude_output_tokens = @ + outTok,
              !.total_cost_usd = @ + inTok * 3 + outTok * 15]

\* an archive that also clears the session's usage
ArchiveSessionRowClearsUsage(s) ==
    [s EXCEPT !.status = "archived",
              !.total_claude_input_tokens = 0,
              !.total_claude_output_tokens = 0,
              !.total_cost_usd = 0]

\* ChatSessionService.archive_session
ArchiveSessionRow(s) == [s EXCEPT !.status = "archived"]

\* ChatSessionService._format_message: role and content (no stored row holds
\* tool_calls or tool_results: add_message is never handed any)
FormatMessage(m) == [role |-> m.role, kind |-> "text", content |-> m.content]

\* the synthetic turn standing for the middle messages
SummaryMessage(middle_count) ==
    [role |-> "assistant", kind |-> "summary", content |-> middle_count]

\* Python's seq[-k:] for k >= 0: the last k elements, and the whole list
\* when k = 0 (the start index -0 is 0) or k >= len(seq)
SliceFromMinus(seq, k) ==
    IF k = 0 \/ k >= Len(seq) THEN seq
    ELSE SubSeq(seq, Len(seq) - k + 1, Len(seq))

FormatMessages(msgs) == [i \in 1..Len(msgs) |-> FormatMessage(msgs[i])]

\* a context builder that forgets the oldest message of a short session
GetConversationContextWithoutFirst(all_messages, max_messages) ==
    FormatMessages(SliceFromMinus(all_messages, max_messages - 1))

\* ChatSessionService.get_conversation_context
GetConversationContext(all_messages, max_messages) ==
    IF Len(all_messages) = 0 THEN <<>>
    ELSE IF Len(all_messages) <= max_messages THEN FormatMessages(all_messages)
    ELSE LET recent_messages == SliceFromMinus(all_messages, max_messages - 1)
             middle_count == Len(all_messages) - max_messages
         IN  <<FormatMessage(all_messages[1])>>
             \o (IF middle_count > 0 THEN <<SummaryMessage(middle_count)>> ELSE <<>>)
             \o FormatMessages(recent_messages)

\* stream_chat: max_messages=20
ContextMaxMessages == 20

\* no get_conversation_context call made yet
NoContextCall == [max_messages |-> 0, count |-> 0]

\* ------------------------------------------------------------------ events
Event(type, tool, id, inTok, outTok) ==
    [type |-> type, tool |-> tool, tool_use_id |-> id,
     input_tokens |-> inTok, output_tokens |-> outTok]

TextEvent == Event("text", "", 0, 0, 0)
DoneEvent == Event("done", "", 0, 0, 0)
ErrorEvent == Event("error", "", 0, 0, 0)
UsageEvent(i, o) == Event("usage", "", 0, i, o)

\* the `text` events of one stream: its content_block_delta events are
\* forwarded one by one and are alike, so a stream's run of them is kept as
\* one event
TextEvents(hasText) == IF hasText THEN <<TextEvent>> ELSE <<>>

\* ------------------------------------------------------------------ handlers
\* A handler works on the rows it can reach through self.db and on the
\* orchestrator's own field.
World(s, pending, n) == [session |-> s, pending |-> pending, icps |-> n]

\* a returned dict: does it hold the keys "error" and "summary"; no handler
\* returns a dict with a "results" key
Returned(hasError, hasSummary, w) ==
    [raised |-> FALSE, error |-> hasError, summary |-> hasSummary,
     results |-> FALSE, world |-> w]

Raised(w) ==
    [raised |-> TRUE, error |-> TRUE, summary |-> FALSE, results |-> FALSE,
     world |-> w]

\* the fields the input_schema of save_icp lists as required
SaveIcpRequired == {"name", "industry", "job_titles"}

\* the keys of a save_icp input that are among the required ones
SaveIcpGiven(input) ==
    CASE input = "full" -> {"name", "industry", "job_titles"}
      [] input = "no_industry" -> {"name", "job_titles"}
      [] input = "no_job_titles" -> {"name", "industry"}
      [] input = "name_only" -> {"name"}
      [] OTHER -> {"industry", "job_titles"}             \* "no_name"

\* ToolOrchestrator._save_icp: tool_input["name"] is the only key read with
\* a subscript, every other one with .get, and the ICP columns other than
\* name are nullable
SaveIcp(input, w) ==
    IF "name" \notin SaveIcpGiven(input)
    THEN Raised(w)                                   \* tool_input["name"]: KeyError
    ELSE Returned(FALSE, TRUE,
            [w EXCEPT !.icps = @ + 1,
                      !.session.icp_id = w.icps + 1,
                      !.session.current_icp_draft = "none"])

\* a search handler that keeps the result list of a search whose API call
\* raised, and hands it to the model as well
SearchApolloKeepsResultsOnFailure(input, env, id, w) ==
    IF input \notin {"people", "companies"}
    THEN Returned(TRUE, TRUE, w)
    ELSE IF env = "api_raises"
    THEN [Returned(TRUE, TRUE, [w EXCEPT !.pending = id]) EXCEPT !.results = TRUE]
    ELSE Returned(FALSE, TRUE,
            [w EXCEPT !.pending = id,
                      !.session.last_apollo_search = [type |-> input, by |-> id]])

\* ToolOrchestrator._search_apollo: the stored last_apollo_search holds the
\* keys type, count, returned and params
SearchApollo(input, env, id, w) ==
    IF input \notin {"people", "companies"}
    THEN Returned(TRUE, TRUE, w)                     \* "Unknown search_type"
    ELSE IF env = "api_raises"
    THEN Returned(TRUE, TRUE, w)                     \* except Exception: "Apollo search failed"
    ELSE Returned(FALSE, TRUE,
            [w EXCEPT !.pending = id,
                      !.session.last_apollo_search = [type |-> input, by |-> id]])

\* ToolOrchestrator._enrich_companies
EnrichCompanies(input, env, w) ==
    CASE input = "no_company_ids" -> Raised(w)       \* tool_input["company_ids"]: KeyError
      [] input = "all" -> Returned(TRUE, FALSE, w)   \* the stored search holds no "company_ids"
      [] env = "not_found" -> Returned(TRUE, FALSE, w)
      [] env = "found_completed" ->
            Returned(FALSE, TRUE, [w EXCEPT !.session.last_enrichment = 1])
      [] OTHER ->
            Returned(FALSE, TRUE, [w EXCEPT !.session.last_enrichment = 0])

\* ToolOrchestrator._verify_emails
VerifyEmails(w) == Returned(FALSE, TRUE, w)

\* ToolOrchestrator._get_session_context
GetSessionContext(w) == Returned(FALSE, TRUE, w)

\* ToolOrchestrator._update_icp_draft
UpdateIcpDraft(input, w) ==
    LET started == IF w.session.current_icp_draft = "none"
                   THEN [w EXCEPT !.session.current_icp_draft = "empty"]
                   ELSE w
    IN  IF input = "no_updates"
        THEN Raised(started)                         \* tool_input["updates"]: KeyError
        ELSE Returned(FALSE, TRUE,
                [started EXCEPT !.session.current_icp_draft = "filled"])

\* the names execute_tool's if/elif chain dispatches
Dispatched == {SAVE_ICP_TOOL, SEARCH_APOLLO_TOOL, ENRICH_COMPANIES_TOOL,
               VERIFY_EMAILS_TOOL, GET_SESSION_CONTEXT_TOOL, UPDATE_ICP_DRAFT_TOOL}

\* does execute_tool enter a handler for this name
RunsHandler(mode, name) == name \in Dispatched

\* ToolOrchestrator.execute_tool, up to the logging: the handler's outcome
Dispatch(mode, name, input, env, id, w) ==
    IF ~RunsHandler(mode, name) THEN Raised(w)       \* ValueError("Unknown tool")
    ELSE CASE name = SAVE_ICP_TOOL -> SaveIcp(input, w)
           [] name = SEARCH_APOLLO_TOOL -> SearchApollo(input, env, id, w)
           [] name = ENRICH_COMPANIES_TOOL -> EnrichCompanies(input, env, w)
           [] name = VERIFY_EMAILS_TOOL -> VerifyEmails(w)
           [] name = GET_SESSION_CONTEXT_TOOL -> GetSessionContext(w)
           [] OTHER -> UpdateIcpDraft(input, w)

\* the status execute_tool logs for an outcome
LoggedStatus(out) == IF out.raised THEN "error" ELSE "success"

\* a variant of _log_tool_execution that writes no row for a failed call
LogSuccessesOnly(rows, name, id, status, outputError) ==
    IF status = "error" THEN rows
    ELSE Append(rows, [tool_name |-> name, tool_call_id |-> id, status |-> status,
                       output_error |-> outputError,
                       execution_time_ms |-> 0, credits_consumed |-> 0, cost_usd |-> 0])

\* a variant of _log_tool_execution that never commits the row
LogNothing(rows, name, id, status, outputError) == rows

\* ToolOrchestrator._log_tool_execution: db.add + db.commit.  output_error:
\* does the stored tool_output hold an "error" key.  The handlers return
\* neither credits_consumed nor cost_usd, so both take their default.
LogToolExecution(rows, name, id, status, outputError) ==
    Append(rows, [tool_name |-> name, tool_call_id |-> id, status |-> status,
                  output_error |-> outputError,
                  execution_time_ms |-> 0, credits_consumed |-> 0, cost_usd |-> 0])

\* ------------------------------------------------------------------ the LLM
\* the tool_use blocks a model turn may carry: any name, any input
ToolRequests ==
    UNION {{[name |-> n, input |-> i] : i \in ToolInputs(n)} : n \in ToolNames}

\* final_message.content's tool_use blocks, with the ids the API gives them
ToolUseBlocks(reqs, firstId) ==
    [k \in 1..Len(reqs) |->
        [name |-> reqs[k].name, input |-> reqs[k].input, id |-> firstId + k - 1]]

\* final_message.usage: what the provider bills for the call, one input token
\* per turn of the prompt and one output token per content block
UsageInputTokens(prompt) == Len(prompt)
UsageOutputTokens(hasText, reqs) == (IF hasText THEN 1 ELSE 0) + Len(reqs)

\* does the stream carry text deltas: a turn that asks for tools announces
\* them in text, a final answer may be empty
TextChoices(reqs) == IF Len(reqs) = 0 THEN BOOLEAN ELSE {TRUE}

\* entries of the running message list
AssistantToolTurn(blocks) ==
    [role |-> "assistant", kind |-> "tool_use",
     content |-> [k \in 1..Len(blocks) |-> [tool_use_id |-> blocks[k].id, is_error |-> FALSE]]]
\* a tool-result turn that leaves the failed calls out
ToolResultTurnSuccessesOnly(res) ==
    [role |-> "user", kind |-> "tool_result",
     content |-> SelectSeq(res, LAMBDA e : ~e.is_error)]

ToolResultTurn(res) == [role |-> "user", kind |-> "tool_result", content |-> res]

\* stream_chat's handling of one yielded `usage` event: add_message when a
\* token count is positive
UsageCaptured(i, o) == i > 0 \/ o > 0

OnUsageSession(s, i, o) == IF UsageCaptured(i, o) THEN AddMessageSession(s, i, o) ELSE s

OnUsageMessages(msgs, i, o) ==
    IF UsageCaptured(i, o) THEN AddMessageRow(msgs, "assistant", i, o) ELSE msgs

\* ------------------------------------------------------------------ one turn
Init ==
    /\ tools_mode \in {"all", "prospecting"}
    /\ max_iterations \in 1..MaxIterationsArg
    /\ pc = "start"
    /\ iteration = 0
    /\ tool_uses = <<>>
    /\ tool_idx = 0
    /\ tool_results = <<>>
    /\ current_messages = <<>>
    /\ total_input_tokens = 0
    /\ total_output_tokens = 0
    /\ exec_outcome = [raised |-> FALSE, error |-> FALSE, summary |-> FALSE,
                       results |-> FALSE]
    /\ pending_apollo_results = 0
    /\ tool_executions = <<>>
    /\ session = NewSession
    /\ messages = <<>>
    /\ icps = 0
    /\ events = <<>>
    /\ llm_calls = 0
    /\ handler_runs = {}
    /\ next_tool_id = 1
    /\ companies = <<>>
    /\ max_concurrent = 0
    /\ force = FALSE
    /\ semaphore = 0
    /\ task_pc = <<>>
    /\ results = <<>>
    /\ fetch_raised = <<>>
    /\ final_results = <<>>
    /\ batch_pc = "idle"
    /\ enrich_calls = <<>>
    /\ context = <<>>
    /\ context_call = NoContextCall
    /\ req_pc = <<>>
    /\ journal = <<>>

\* stream_chat up to the call of execute_and_continue, and the locals the
\* generator sets before its while loop
StreamChatStart ==
    /\ pc = "start"
    /\ messages' = AddMessageRow(messages, "user", 0, 0)
    /\ session' = AddMessageSession(session, 0, 0)
    /\ current_messages' = GetConversationContext(messages', ContextMaxMessages)
    /\ iteration' = 0
    /\ total_input_tokens' = 0
    /\ total_output_tokens' = 0
    /\ pc' = "while"
    /\ UNCHANGED <<tools_mode, max_iterations, tool_uses, tool_idx, tool_results,
                   exec_outcome, pending_apollo_results, tool_executions, icps,
                   events, llm_calls, handler_runs, next_tool_id, batchVars, serviceVars, overlapVars>>

\* a loop test that is off by one
LoopContinuesInclusive(it, cap) == it <= cap

\* does the while loop run another iteration
LoopContinues(it, cap) == it < cap

\* `while iteration < max_iterations: iteration += 1`
WhileTest ==
    /\ pc = "while"
    /\ IF LoopContinues(iteration, max_iterations)
       THEN /\ iteration' = iteration + 1
            /\ tool_uses' = <<>>
            /\ pc' = "stream"
       ELSE /\ pc' = "after_while"
            /\ UNCHANGED <<iteration, tool_uses>>
    /\ UNCHANGED <<tools_mode, max_iterations, tool_idx, tool_results,
                   current_messages, total_input_tokens, total_output_tokens,
                   exec_outcome, pending_apollo_results, tool_executions, session,
                   messages, icps, events, llm_calls, handler_runs, next_tool_id,
                   batchVars, serviceVars, overlapVars>>

\* client.messages.stream raises (at once, or after some text deltas):
\* `except Exception: yield error; break`
LLMRaises ==
    /\ pc = "stream"
    /\ \E hasText \in BOOLEAN :
           events' = events \o TextEvents(hasText) \o <<ErrorEvent>>
    /\ llm_calls' = llm_calls + 1
    /\ pc' = "after_while"
    /\ UNCHANGED <<tools_mode, max_iterations, iteration, tool_uses, tool_idx,
                   tool_results, current_messages, total_input_tokens,
                   total_output_tokens, exec_outcome, pending_apollo_results,
                   tool_executions, session, messages, icps, handler_runs,
                   next_tool_id, batchVars, serviceVars, overlapVars>>

\* the stream completes: text deltas are forwarded, usage is accumulated and
\* the tool_use blocks are extracted
LLMReturns ==
    /\ pc = "stream"
    /\ \E k \in 0..(MaxToolCalls - (next_tool_id - 1)) :
         /\ next_tool_id' = next_tool_id + k
         /\ pc' = IF k = 0 THEN "no_tools" ELSE "for"
         /\ \E reqs \in [1..k -> ToolRequests] :
               /\ tool_uses' = ToolUseBlocks(reqs, next_tool_id)
               /\ \E hasText \in TextChoices(reqs) :
                     /\ events' = events \o TextEvents(hasText)
                     /\ total_input_tokens' =
                            total_input_tokens + UsageInputTokens(current_messages)
                     /\ total_output_tokens' =
                            total_output_tokens + UsageOutputTokens(hasText, reqs)
    /\ llm_calls' = llm_calls + 1
    /\ tool_idx' = 1
    /\ tool_results' = <<>>
    /\ UNCHANGED <<tools_mode, max_iterations, iteration, current_messages,
                   exec_outcome, pending_apollo_results, tool_executions, session,
                   messages, icps, handler_runs, batchVars, serviceVars, overlapVars>>

\* `if not tool_uses: yield usage; yield done; break`, with stream_chat
\* recording the usage between the two events
NoTools ==
    /\ pc = "no_tools"
    /\ events' = events \o <<UsageEvent(total_input_tokens, total_output_tokens),
                             DoneEvent>>
    /\ session' = OnUsageSession(session, total_input_tokens, total_output_tokens)
    /\ messages' = OnUsageMessages(messages, total_input_tokens, total_output_tokens)
    /\ pc' = "after_while"
    /\ UNCHANGED <<tools_mode, max_iterations, iteration, tool_uses, tool_idx,
                   tool_results, current_messages, total_input_tokens,
                   total_output_tokens, exec_outcome, pending_apollo_results,
                   tool_executions, icps, llm_calls, handler_runs, next_tool_id,
                   batchVars, serviceVars, overlapVars>>

CurrentToolUse == tool_uses[tool_idx]

\* `for tool_use in tool_uses: yield tool_start`
ToolStart ==
    /\ pc = "for"
    /\ tool_idx <= Len(tool_uses)
    /\ events' = Append(events, Event("tool_start", CurrentToolUse.name,
                                      CurrentToolUse.id, 0, 0))
    /\ pc' = "execute"
    /\ UNCHANGED <<tools_mode, max_iterations, iteration, tool_uses, tool_idx,
                   tool_results, current_messages, total_input_tokens,
                   total_output_tokens, exec_outcome, pending_apollo_results,
                   tool_executions, session, messages, icps, llm_calls,
                   handler_runs, next_tool_id, batchVars, serviceVars, overlapVars>>

\* ToolOrchestrator.execute_tool for the current tool_use, run to its end:
\* dispatch, the handler's effect on the session and the orchestrator, then
\* the ToolExecution row
RunExecuteTool ==
    LET t == CurrentToolUse
    IN \E env \in Environments(t.name, t.input) :
         LET out == Dispatch(tools_mode, t.name, t.input, env, t.id,
                             World(session, pending_apollo_results, icps))
         IN  /\ session' = out.world.session
             /\ pending_apollo_results' = out.world.pending
             /\ icps' = out.world.icps
             /\ handler_runs' = IF RunsHandler(tools_mode, t.name)
                                THEN handler_runs \cup {t.id}
                                ELSE handler_runs
             /\ tool_executions' =
                    LogToolExecution(tool_executions, t.name, t.id, LoggedStatus(out),
                                     out.error)
             /\ exec_outcome' = [raised |-> out.raised, error |-> out.error,
                                 summary |-> out.summary, results |-> out.results]

\* `await self.execute_tool(name, input, id)`: the call returns the
\* handler's dict or re-raises
ExecuteTool ==
    /\ pc = "execute"
    /\ RunExecuteTool
    /\ pc' = "emit"
    /\ UNCHANGED <<tools_mode, max_iterations, iteration, tool_uses, tool_idx,
                   tool_results, current_messages, total_input_tokens,
                   total_output_tokens, messages, events, llm_calls,
                   next_tool_id, batchVars, serviceVars, overlapVars>>

\* the tool_result entry the loop records for the model
ToolResultEntry(id, isError) == [tool_use_id |-> id, is_error |-> isError]

\* execute_tool returned: tool_result, `tool_complete`, and the side-channel
\* event when search_apollo left results pending
ToolReturned ==
    /\ pc = "emit"
    /\ ~exec_outcome.raised
    /\ LET t == CurrentToolUse
           side == t.name = SEARCH_APOLLO_TOOL /\ pending_apollo_results # 0
       IN  /\ tool_results' = Append(tool_results, ToolResultEntry(t.id, FALSE))
           /\ events' = events
                  \o <<Event("tool_complete", t.name, t.id, 0, 0)>>
                  \o (IF side
                      THEN <<Event("apollo_results", t.name, pending_apollo_results, 0, 0)>>
                      ELSE <<>>)
           /\ pending_apollo_results' = IF side THEN 0 ELSE pending_apollo_results
    /\ tool_idx' = tool_idx + 1
    /\ pc' = "for"
    /\ UNCHANGED <<tools_mode, max_iterations, iteration, tool_uses,
                   current_messages, total_input_tokens, total_output_tokens,
                   exec_outcome, tool_executions, session, messages, icps,
                   llm_calls, handler_runs, next_tool_id, batchVars, serviceVars, overlapVars>>

\* a loop that gives up on the turn's remaining tool_uses after a failure
AbortsOnToolErrorAlways == TRUE

\* does a raising tool call end the for loop over the turn's tool_uses
\* (the except clause holds no break)
AbortsOnToolError == FALSE

\* execute_tool raised: `except Exception`: error tool_result, `tool_error`,
\* and the for loop goes on
ToolRaised ==
    /\ pc = "emit"
    /\ exec_outcome.raised
    /\ LET t == CurrentToolUse
       IN  /\ tool_results' = Append(tool_results, ToolResultEntry(t.id, TRUE))
           /\ events' = Append(events, Event("tool_error", t.name, t.id, 0, 0))
    /\ tool_idx' = IF AbortsOnToolError THEN Len(tool_uses) + 1 ELSE tool_idx + 1
    /\ pc' = "for"
    /\ UNCHANGED <<tools_mode, max_iterations, iteration, tool_uses,
                   current_messages, total_input_tokens, total_output_tokens,
                   exec_outcome, pending_apollo_results, tool_executions, session,
                   messages, icps, llm_calls, handler_runs, next_tool_id,
                   batchVars, serviceVars, overlapVars>>

\* after the for loop: the assistant turn and the tool-result turn are
\* appended, and the while loop is re-entered
AppendToolTurns ==
    /\ pc = "for"
    /\ tool_idx > Len(tool_uses)
    /\ current_messages' = current_messages
           \o <<AssistantToolTurn(tool_uses), ToolResultTurn(tool_results)>>
    /\ pc' = "while"
    /\ UNCHANGED <<tools_mode, max_iterations, iteration, tool_uses, tool_idx,
                   tool_results, total_input_tokens, total_output_tokens,
                   exec_outcome, pending_apollo_results, tool_executions, session,
                   messages, icps, events, llm_calls, handler_runs, next_tool_id,
                   batchVars, serviceVars, overlapVars>>

\* a cap test that is off by one
MaxIterationsExceeded(it, cap) == it > cap

\* `if iteration >= max_iterations`
MaxIterationsReached(it, cap) == it >= cap

\* after the while loop (left by break or by its test): on the cap,
\* `yield usage; yield error "Max iterations reached"`; the generator ends
AfterWhile ==
    /\ pc = "after_while"
    /\ IF MaxIterationsReached(iteration, max_iterations)
       THEN /\ events' = events
                   \o <<UsageEvent(total_input_tokens, total_output_tokens), ErrorEvent>>
            /\ session' = OnUsageSession(session, total_input_tokens, total_output_tokens)
            /\ messages' = OnUsageMessages(messages, total_input_tokens, total_output_tokens)
       ELSE UNCHANGED <<events, session, messages>>
    /\ pc' = "end"
    /\ UNCHANGED <<tools_mode, max_iterations, iteration, tool_uses, tool_idx,
                   tool_results, current_messages, total_input_tokens,
                   total_output_tokens, exec_outcome, pending_apollo_results,
                   tool_executions, icps, llm_calls, handler_runs, next_tool_id,
                   batchVars, serviceVars, overlapVars>>

Next ==
    \/ StreamChatStart
    \/ WhileTest
    \/ LLMRaises
    \/ LLMReturns
    \/ NoTools
    \/ ToolStart
    \/ ExecuteTool
    \/ ToolReturned
    \/ ToolRaised
    \/ AppendToolTurns
    \/ AfterWhile

Spec == Init /\ [][Next]_vars

\* every awaited call returns or raises and the event stream is consumed, so
\* a turn that can take a step takes one
FairSpec == Spec /\ WF_vars(Next)

\* The client goes away while the turn's event stream is open, and the
\* server ends the stream_chat generator.  Either the response task is
\* cancelled where it is suspended: inside an awaited execute_tool the
\* CancelledError passes the handler's and execute_tool's `except Exception`
\* clauses, so the call is abandoned and no row is written.  Or the
\* generator is closed at its next yield: an awaited execute_tool then runs
\* to its end first.
ClientDisconnects ==
    /\ pc \notin {"end", "disconnected"}
    /\ pc' = "disconnected"
    /\ \/ /\ pc = "execute"
          /\ RunExecuteTool
       \/ UNCHANGED <<session, pending_apollo_results, icps, handler_runs,
                      tool_executions, exec_outcome>>
    /\ UNCHANGED <<tools_mode, max_iterations, iteration, tool_uses, tool_idx,
                   tool_results, current_messages, total_input_tokens,
                   total_output_tokens, messages, events, llm_calls,
                   next_tool_id, batchVars, serviceVars, overlapVars>>

\* a turn whose client may go away at any moment
DisconnectSpec == Init /\ [][Next \/ ClientDisconnects]_vars

\* POST /sessions/{uuid}/archive is served, during the turn or after it
ArchiveSession ==
    /\ session.status = "active"
    /\ session' = ArchiveSessionRow(session)
    /\ UNCHANGED <<tools_mode, max_iterations, pc, iteration, tool_uses, tool_idx,
                   tool_results, current_messages, total_input_tokens,
                   total_output_tokens, exec_outcome, pending_apollo_results,
                   tool_executions, messages, icps, events, llm_calls,
                   handler_runs, next_tool_id, batchVars, serviceVars, overlapVars>>

\* a turn on a session that may be archived at any moment
ArchiveSpec == Init /\ [][Next \/ ArchiveSession]_vars

\* ------------------------------------------------------------------ tool calls
\* the save_icp inputs told apart by which required fields they hold
SaveIcpInputs == {"full", "no_industry", "no_job_titles", "name_only", "no_name"}

\* the tool_use blocks execute_tool may be handed
ExecuteToolRequests ==
    ToolRequests \cup {[name |-> SAVE_ICP_TOOL, input |-> i] : i \in SaveIcpInputs}

\* an orchestrator on a fresh session, about to be handed tool_use blocks
ToolCallInit ==
    /\ tools_mode \in {"all", "prospecting"}
    /\ max_iterations = 1
    /\ pc = "call"
    /\ iteration = 0
    /\ tool_uses = <<>>
    /\ tool_idx = 1
    /\ tool_results = <<>>
    /\ current_messages = <<>>
    /\ total_input_tokens = 0
    /\ total_output_tokens = 0
    /\ exec_outcome = [raised |-> FALSE, error |-> FALSE, summary |-> FALSE,
                       results |-> FALSE]
    /\ pending_apollo_results = 0
    /\ tool_executions = <<>>
    /\ session = NewSession
    /\ messages = <<>>
    /\ icps = 0
    /\ events = <<>>
    /\ llm_calls = 0
    /\ handler_runs = {}
    /\ next_tool_id = 1
    /\ companies = <<>>
    /\ max_concurrent = 0
    /\ force = FALSE
    /\ semaphore = 0
    /\ task_pc = <<>>
    /\ results = <<>>
    /\ fetch_raised = <<>>
    /\ final_results = <<>>
    /\ batch_pc = "idle"
    /\ enrich_calls = <<>>
    /\ context = <<>>
    /\ context_call = NoContextCall
    /\ req_pc = <<>>
    /\ journal = <<>>

\* execute_tool(tool_name, tool_input, tool_call_id) is called
CallExecuteTool ==
    /\ pc = "call"
    /\ next_tool_id <= MaxToolCalls
    /\ \E req \in ExecuteToolRequests :
          tool_uses' = ToolUseBlocks(<<req>>, next_tool_id)
    /\ next_tool_id' = next_tool_id + 1
    /\ pc' = "execute"
    /\ UNCHANGED <<tools_mode, max_iterations, iteration, tool_idx, tool_results,
                   current_messages, total_input_tokens, total_output_tokens,
                   exec_outcome, pending_apollo_results, tool_executions, session,
                   messages, icps, events, llm_calls, handler_runs,
                   batchVars, serviceVars, overlapVars>>

\* the call runs to its end: the handler's dict is returned or its
\* exception re-raised
ExecuteToolEnds ==
    /\ pc = "execute"
    /\ RunExecuteTool
    /\ pc' = "call"
    /\ UNCHANGED <<tools_mode, max_iterations, iteration, tool_uses, tool_idx,
                   tool_results, current_messages, total_input_tokens,
                   total_output_tokens, messages, events, llm_calls,
                   next_tool_id, batchVars, serviceVars, overlapVars>>

ToolCallNext ==
    \/ CallExecuteTool
    \/ ExecuteToolEnds

\* execute_tool called on one session with any tool and any input
ToolCallSpec == ToolCallInit /\ [][ToolCallNext]_vars

\* ------------------------------------------------------------------ enrichment
\* an address: the part before the @ and the domain after it
Email(local, domain) == [local |-> local, domain |-> domain]
NoEmail == Email("", "")

\* the host of the website a record holds, after _extract_domain
WebsiteDomain == "site"

\* addresses a page of the website may carry
WebEmail == Email("info", WebsiteDomain)
PersonalEmail == Email("john.smith", WebsiteDomain)
ForeignEmail == Email("info", "other")

\* the contact address the prospecting search stored on the record
ApolloEmail == Email("owner", "mail")

GENERIC_EMAIL_PREFIXES ==
    {"info", "contact", "sales", "support", "hello", "team", "admin",
     "general", "office", "mail", "contatti", "vendite"}

\* EmailFinder._is_generic_email (the local parts used here either are a
\* listed prefix or neither start nor end with one)
IsGenericEmail(e) == e.local \in GENERIC_EMAIL_PREFIXES

\* EmailFinder._extract_emails_from_html: addresses of the company's domain
\* with a generic prefix
ExtractEmailsFromHtml(addresses, domain) ==
    {e \in addresses : e.domain = domain /\ IsGenericEmail(e)}

\* what http_client.get does for one page
PageResponses == {"timeout", "unreachable", "not_200", "html_contacts", "html_other"}

\* the page responses on which http_client.get raises
RaisingResponses == {"timeout", "unreachable"}

\* the addresses the pattern finds in a page's text
PageAddresses(response) ==
    IF response = "html_contacts" THEN {WebEmail, PersonalEmail, ForeignEmail}
    ELSE {PersonalEmail, ForeignEmail}

\* EmailFinder._fetch_page: the page's text, or None on a timeout, on any
\* other exception and on a status other than 200
FetchPage(response) ==
    IF response \in {"html_contacts", "html_other"}
    THEN [html |-> TRUE, addresses |-> PageAddresses(response)]
    ELSE [html |-> FALSE, addresses |-> {}]

\* How a record's website answers one find_emails_on_website call: does its
\* URL hold a host, and the response of the homepage and of the contact
\* paths (which the finder treats alike).
Sites ==
    {[host |-> FALSE, homepage |-> "unreachable", contact |-> "unreachable"]}
    \cup {[host |-> TRUE, homepage |-> h, contact |-> c] :
              h \in PageResponses, c \in PageResponses}

\* EmailFinder.find_emails_on_website: an error text when the URL yields no
\* domain, else the emails of the pages that could be fetched
FindEmailsOnWebsite(site) ==
    IF ~site.host
    THEN [error |-> TRUE, emails |-> {}]
    ELSE [error |-> FALSE,
          emails |-> ExtractEmailsFromHtml(FetchPage(site.homepage).addresses, WebsiteDomain)
                     \cup ExtractEmailsFromHtml(FetchPage(site.contact).addresses, WebsiteDomain)]

\* did every page fetch of the call raise
EveryFetchRaised(site) ==
    site.host /\ site.homepage \in RaisingResponses /\ site.contact \in RaisingResponses

\* values of Company.enrichment_date: NULL, a naive datetime (as assigned by
\* enrich_company in this db session) or an aware one (as loaded from the
\* DateTime(timezone=True) column), each less than 7 days old or older
EnrichmentDates == {"none", "recent", "old", "recent_aware", "old_aware"}

IsAware(d) == d \in {"recent_aware", "old_aware"}
IsRecent(d) == d \in {"recent", "recent_aware"}

\* Company rows a batch may hold (the enrichment fields, website and email).
\* A record without a website was never scraped.
CompanyKinds ==
    {[website |-> d # "unset", email |-> e,
      enrichment_date |-> IF d = "unset" THEN "none" ELSE d,
      generic_emails |-> IF d \in {"unset", "none"} THEN {} ELSE {WebEmail},
      enrichment_source |-> IF d \in {"unset", "none"} THEN "none" ELSE "web_scrape",
      enrichment_status |-> IF d \in {"unset", "none"} THEN "none" ELSE "completed"] :
        e \in {NoEmail, ApolloEmail}, d \in EnrichmentDates \cup {"unset"}}

CompanyId(i) == 100 + i

\* what one awaited enrich_with_semaphore task hands to asyncio.gather
EnrichmentResult(id, status, emails) ==
    [kind |-> "result", company_id |-> id, status |-> status, emails_found |-> emails]
RaisedException == [kind |-> "exception", company_id |-> 0, status |-> "none",
                    emails_found |-> {}]
NoResult == [kind |-> "none", company_id |-> 0, status |-> "none", emails_found |-> {}]

\* enrich_company up to its first await, for a record and the force flag:
\* what it does before any website fetch
BeforeFetch(c, f) ==
    IF ~c.website THEN "skip_no_website"
    ELSE IF ~f /\ c.enrichment_date # "none"
         THEN IF IsAware(c.enrichment_date) THEN "raise"       \* naive - aware: TypeError
              ELSE IF IsRecent(c.enrichment_date) THEN "skip_recent"
              ELSE "fetch"
         ELSE "fetch"

\* an update that forgets the status of a record whose finder result holds
\* an error
AfterFetchKeepsPendingOnError(c, finder_result) ==
    IF finder_result.error
    THEN [c EXCEPT !.enrichment_date = "recent"]
    ELSE [c EXCEPT !.generic_emails = finder_result.emails,
                   !.enrichment_date = "recent",
                   !.enrichment_status = "completed"]

\* enrich_company after find_emails_on_website returned: the record's update
AfterFetch(c, finder_result) ==
    IF finder_result.error
    THEN [c EXCEPT !.enrichment_status = "failed", !.enrichment_date = "recent"]
    ELSE LET found == finder_result.emails
             all == found \cup (IF c.email # NoEmail THEN {c.email} ELSE {})
             src == IF c.email # NoEmail /\ found # {} THEN "both"
                    ELSE IF found # {} THEN "web_scrape"
                    ELSE IF c.email # NoEmail THEN "apollo"
                    ELSE "none"
         IN [c EXCEPT !.generic_emails = all,
                      !.enrichment_source = src,
                      !.enrichment_date = "recent",
                      !.enrichment_status = "completed",
                      !.email = IF c.email = NoEmail /\ found # {}
                                THEN CHOOSE e \in found : TRUE ELSE c.email]

\* the EnrichmentResult enrich_company returns after the fetch
FetchResult(id, c, finder_result) ==
    IF finder_result.error THEN EnrichmentResult(id, "failed", {})
    ELSE EnrichmentResult(id, "completed", AfterFetch(c, finder_result).generic_emails)

\* a semaphore that admits every task
CanAcquireAlways(value) == TRUE

\* asyncio.Semaphore: may a task enter `async with semaphore`
CanAcquire(value) == value > 0

Tasks == 1..Len(companies)

\* enrich_companies_batch is called: Semaphore(max_concurrent) and one task
\* per company, all waiting to be scheduled
EnrichInit ==
    /\ \E n \in 0..MaxCompanies : companies \in [1..n -> CompanyKinds]
    /\ max_concurrent \in 0..MaxConcurrentArg
    /\ force \in BOOLEAN
    /\ semaphore = max_concurrent
    /\ task_pc = [i \in 1..Len(companies) |-> "acquire"]
    /\ results = [i \in 1..Len(companies) |-> NoResult]
    /\ fetch_raised = [i \in 1..Len(companies) |-> FALSE]
    /\ final_results = <<>>
    /\ batch_pc = "gather"
    /\ enrich_calls = <<>>
    /\ context = <<>>
    /\ context_call = NoContextCall
    /\ req_pc = <<>>
    /\ journal = <<>>
    /\ tools_mode = "all"
    /\ max_iterations = 1
    /\ pc = "tool"
    /\ iteration = 0
    /\ tool_uses = <<>>
    /\ tool_idx = 0
    /\ tool_results = <<>>
    /\ current_messages = <<>>
    /\ total_input_tokens = 0
    /\ total_output_tokens = 0
    /\ exec_outcome = [raised |-> FALSE, error |-> FALSE, summary |-> FALSE,
                       results |-> FALSE]
    /\ pending_apollo_results = 0
    /\ tool_executions = <<>>
    /\ session = NewSession
    /\ messages = <<>>
    /\ icps = 0
    /\ events = <<>>
    /\ llm_calls = 0
    /\ handler_runs = {}
    /\ next_tool_id = 1

\* a task enters `async with semaphore` and runs enrich_company up to its
\* first await (the website fetch), or to its return or raise when it needs
\* no fetch
TaskAcquire(i) ==
    /\ batch_pc = "gather"
    /\ task_pc[i] = "acquire"
    /\ CanAcquire(semaphore)
    /\ LET c == companies[i]
           path == BeforeFetch(c, force)
       IN CASE path = "skip_no_website" ->
                 /\ companies' = [companies EXCEPT ![i].enrichment_status = "not_needed"]
                 /\ results' = [results EXCEPT ![i] = EnrichmentResult(CompanyId(i), "skipped", {})]
                 /\ task_pc' = [task_pc EXCEPT ![i] = "sleep"]
                 /\ semaphore' = semaphore - 1
            [] path = "skip_recent" ->
                 /\ results' = [results EXCEPT
                        ![i] = EnrichmentResult(CompanyId(i), "skipped", c.generic_emails)]
                 /\ task_pc' = [task_pc EXCEPT ![i] = "sleep"]
                 /\ semaphore' = semaphore - 1
                 /\ UNCHANGED companies
            [] path = "raise" ->
                 \* the exception leaves `async with`, which releases
                 /\ results' = [results EXCEPT ![i] = RaisedException]
                 /\ task_pc' = [task_pc EXCEPT ![i] = "done"]
                 /\ UNCHANGED <<companies, semaphore>>
            [] OTHER ->
                 /\ companies' = [companies EXCEPT ![i].enrichment_status = "pending"]
                 /\ task_pc' = [task_pc EXCEPT ![i] = "fetch"]
                 /\ semaphore' = semaphore - 1
                 /\ UNCHANGED results
    /\ UNCHANGED <<max_concurrent, force, fetch_raised, final_results, batch_pc,
                   enrich_calls, loopVars, serviceVars, overlapVars>>

\* find_emails_on_website returns to enrich_company, which updates the
\* record and returns; the task goes on to asyncio.sleep(0.5)
TaskFetched(i) ==
    /\ batch_pc = "gather"
    /\ task_pc[i] = "fetch"
    /\ \E site \in Sites :
         LET finder_result == FindEmailsOnWebsite(site)
         IN  /\ companies' = [companies EXCEPT ![i] = AfterFetch(companies[i], finder_result)]
             /\ results' = [results EXCEPT
                    ![i] = FetchResult(CompanyId(i), companies[i], finder_result)]
             /\ fetch_raised' = [fetch_raised EXCEPT ![i] = EveryFetchRaised(site)]
    /\ task_pc' = [task_pc EXCEPT ![i] = "sleep"]
    /\ UNCHANGED <<max_concurrent, force, semaphore, final_results, batch_pc,
                   enrich_calls, loopVars, serviceVars, overlapVars>>

\* the sleep ends, the task returns its result and leaves `async with`
TaskRelease(i) ==
    /\ batch_pc = "gather"
    /\ task_pc[i] = "sleep"
    /\ task_pc' = [task_pc EXCEPT ![i] = "done"]
    /\ semaphore' = semaphore + 1
    /\ UNCHANGED <<companies, max_concurrent, force, results, fetch_raised,
                   final_results, batch_pc, enrich_calls, loopVars, serviceVars,
                   overlapVars>>

\* the loop over gather's results: an exception becomes a failed outcome
\* for companies[i], anything else is kept
FinalResult(i, r) ==
    IF r.kind = "exception" THEN EnrichmentResult(CompanyId(i), "failed", {}) ELSE r

\* a result loop that leaves the raised records out
FinalResultsWithoutRaised(res) ==
    SelectSeq(res, LAMBDA r : r.kind # "exception")

FinalResults(res) == [i \in 1..Len(res) |-> FinalResult(i, res[i])]

\* asyncio.gather(*tasks, return_exceptions=True) completes when every task
\* has, and enrich_companies_batch returns final_results
BatchReturn ==
    /\ batch_pc = "gather"
    /\ \A i \in Tasks : task_pc[i] = "done"
    /\ final_results' = FinalResults(results)
    /\ batch_pc' = "returned"
    /\ UNCHANGED <<companies, max_concurrent, force, semaphore, task_pc, results,
                   fetch_raised, enrich_calls, loopVars, serviceVars, overlapVars>>

EnrichNext ==
    \/ \E i \in Tasks : TaskAcquire(i)
    \/ \E i \in Tasks : TaskFetched(i)
    \/ \E i \in Tasks : TaskRelease(i)
    \/ BatchReturn

EnrichSpec == EnrichInit /\ [][EnrichNext]_vars

\* every website fetch and every sleep ends and the event loop runs each
\* task that can go on
EnrichFairSpec == EnrichSpec /\ WF_vars(EnrichNext)

\* ------------------------------------------------------------------ one record, enriched repeatedly
\* one enrich_company call as the record's history keeps it: the force
\* argument, what the call did before any fetch, and the record's email and
\* enrichment_status when the call was made
EnrichCall(f, path, c) ==
    [force |-> f, path |-> path, email_before |-> c.email,
     status_before |-> c.enrichment_status]

\* a Company row that was never enriched, and no call made on it yet
RecordInit ==
    /\ \E c \in {k \in CompanyKinds : k.enrichment_date = "none"} :
          companies = <<c>>
    /\ enrich_calls = <<>>
    /\ results = <<NoResult>>
    /\ fetch_raised = <<FALSE>>
    /\ force = FALSE
    /\ max_concurrent = 0
    /\ semaphore = 0
    /\ task_pc = <<"none">>
    /\ final_results = <<>>
    /\ batch_pc = "record"
    /\ context = <<>>
    /\ context_call = NoContextCall
    /\ req_pc = <<>>
    /\ journal = <<>>
    /\ tools_mode = "all"
    /\ max_iterations = 1
    /\ pc = "record"
    /\ iteration = 0
    /\ tool_uses = <<>>
    /\ tool_idx = 0
    /\ tool_results = <<>>
    /\ current_messages = <<>>
    /\ total_input_tokens = 0
    /\ total_output_tokens = 0
    /\ exec_outcome = [raised |-> FALSE, error |-> FALSE, summary |-> FALSE,
                       results |-> FALSE]
    /\ pending_apollo_results = 0
    /\ tool_executions = <<>>
    /\ session = NewSession
    /\ messages = <<>>
    /\ icps = 0
    /\ events = <<>>
    /\ llm_calls = 0
    /\ handler_runs = {}
    /\ next_tool_id = 1

\* enrich_company(company, force) run from its call to its return or raise
EnrichCompany(f) ==
    /\ batch_pc = "record"
    /\ Len(enrich_calls) < MaxEnrichCalls
    /\ LET c == companies[1]
           path == BeforeFetch(c, f)
       IN  /\ enrich_calls' = Append(enrich_calls, EnrichCall(f, path, c))
           /\ CASE path = "skip_no_website" ->
                    /\ companies' = [companies EXCEPT ![1].enrichment_status = "not_needed"]
                    /\ results' = <<EnrichmentResult(CompanyId(1), "skipped", {})>>
                    /\ UNCHANGED fetch_raised
                [] path = "skip_recent" ->
                    /\ results' = <<EnrichmentResult(CompanyId(1), "skipped", c.generic_emails)>>
                    /\ UNCHANGED <<companies, fetch_raised>>
                [] path = "raise" ->
                    /\ results' = <<RaisedException>>
                    /\ UNCHANGED <<companies, fetch_raised>>
                [] OTHER ->
                    \E site \in Sites :
                        LET finder_result == FindEmailsOnWebsite(site)
                        IN  /\ companies' = <<AfterFetch(c, finder_result)>>
                            /\ results' = <<FetchResult(CompanyId(1), c, finder_result)>>
                            /\ fetch_raised' = <<EveryFetchRaised(site)>>
    /\ force' = f
    /\ UNCHANGED <<max_concurrent, semaphore, task_pc, final_results, batch_pc,
                   loopVars, serviceVars, overlapVars>>

\* seven days go by: a date that was recent no longer is
DaysPass ==
    /\ batch_pc = "record"
    /\ IsRecent(companies[1].enrichment_date)
    /\ companies' = [companies EXCEPT
           ![1].enrichment_date = IF IsAware(@) THEN "old_aware" ELSE "old"]
    /\ UNCHANGED <<max_concurrent, force, semaphore, task_pc, results, fetch_raised,
                   final_results, batch_pc, enrich_calls, loopVars, serviceVars,
                   overlapVars>>

\* the row is loaded again from the database: its enrichment_date comes
\* back from the DateTime(timezone=True) column as an aware datetime
Reload ==
    /\ batch_pc = "record"
    /\ companies[1].enrichment_date \in {"recent", "old"}
    /\ companies' = [companies EXCEPT
           ![1].enrichment_date = IF IsRecent(@) THEN "recent_aware" ELSE "old_aware"]
    /\ UNCHANGED <<max_concurrent, force, semaphore, task_pc, results, fetch_raised,
                   final_results, batch_pc, enrich_calls, loopVars, serviceVars,
                   overlapVars>>

RecordNext ==
    \/ \E f \in BOOLEAN : EnrichCompany(f)
    \/ DaysPass
    \/ Reload

\* enrich_company called again and again on one record
RecordSpec == RecordInit /\ [][RecordNext]_vars

\* ------------------------------------------------------------------ session service
\* token counts a caller may hand to add_message
InputTokenArgs == {0, 2}
OutputTokenArgs == {0, 1}

\* a session right after create_session, before any request on it
SessionInit ==
    /\ session = NewSession
    /\ messages = <<>>
    /\ context = <<>>
    /\ context_call = NoContextCall
    /\ req_pc = <<>>
    /\ journal = <<>>
    /\ tools_mode = "all"
    /\ max_iterations = 1
    /\ pc = "service"
    /\ iteration = 0
    /\ tool_uses = <<>>
    /\ tool_idx = 0
    /\ tool_results = <<>>
    /\ current_messages = <<>>
    /\ total_input_tokens = 0
    /\ total_output_tokens = 0
    /\ exec_outcome = [raised |-> FALSE, error |-> FALSE, summary |-> FALSE,
                       results |-> FALSE]
    /\ pending_apollo_results = 0
    /\ tool_executions = <<>>
    /\ icps = 0
    /\ events = <<>>
    /\ llm_calls = 0
    /\ handler_runs = {}
    /\ next_tool_id = 1
    /\ companies = <<>>
    /\ max_concurrent = 0
    /\ force = FALSE
    /\ semaphore = 0
    /\ task_pc = <<>>
    /\ results = <<>>
    /\ fetch_raised = <<>>
    /\ final_results = <<>>
    /\ batch_pc = "idle"
    /\ enrich_calls = <<>>

\* ChatSessionService.add_message(session_id, role, content, input_tokens,
\* output_tokens): the row and the counters in one commit
AddMessage(role, inTok, outTok) ==
    /\ pc = "service"
    /\ Len(messages) < MaxStoredMessages
    /\ messages' = AddMessageRow(messages, role, inTok, outTok)
    /\ session' = AddMessageSession(session, inTok, outTok)
    /\ UNCHANGED <<tools_mode, max_iterations, pc, iteration, tool_uses, tool_idx,
                   tool_results, current_messages, total_input_tokens,
                   total_output_tokens, exec_outcome, pending_apollo_results,
                   tool_executions, icps, events, llm_calls, handler_runs,
                   next_tool_id, batchVars, serviceVars, overlapVars>>

\* ChatSessionService.get_conversation_context(session_id, max_messages)
GetContext(max_messages) ==
    /\ pc = "service"
    /\ context' = GetConversationContext(messages, max_messages)
    /\ context_call' = [max_messages |-> max_messages, count |-> Len(messages)]
    /\ UNCHANGED <<loopVars, batchVars, overlapVars>>

SessionNext ==
    \/ \E role \in {"user", "assistant"}, inTok \in InputTokenArgs,
          outTok \in OutputTokenArgs : AddMessage(role, inTok, outTok)
    \/ \E max_messages \in 1..MaxMessagesArg : GetContext(max_messages)

SessionSpec == SessionInit /\ [][SessionNext]_vars

\* ------------------------------------------------------------------ overlapping requests
\* two stream requests for the same session, numbered in arrival order
Requests == {1, 2}

JournalEntry(r, op) == [request |-> r, op |-> op]

\* the session holds no message yet and both requests are on their way
OverlapInit ==
    /\ req_pc = [r \in Requests |-> "arriving"]
    /\ journal = <<>>
    /\ session = NewSession
    /\ messages = <<>>
    /\ tool_executions = <<>>
    /\ llm_calls = 0
    /\ context = <<>>
    /\ context_call = NoContextCall
    /\ tools_mode = "all"
    /\ max_iterations = 1
    /\ pc = "requests"
    /\ iteration = 0
    /\ tool_uses = <<>>
    /\ tool_idx = 0
    /\ tool_results = <<>>
    /\ current_messages = <<>>
    /\ total_input_tokens = 0
    /\ total_output_tokens = 0
    /\ exec_outcome = [raised |-> FALSE, error |-> FALSE, summary |-> FALSE,
                       results |-> FALSE]
    /\ pending_apollo_results = 0
    /\ icps = 0
    /\ events = <<>>
    /\ handler_runs = {}
    /\ next_tool_id = 1
    /\ companies = <<>>
    /\ max_concurrent = 0
    /\ force = FALSE
    /\ semaphore = 0
    /\ task_pc = <<>>
    /\ results = <<>>
    /\ fetch_raised = <<>>
    /\ final_results = <<>>
    /\ batch_pc = "idle"
    /\ enrich_calls = <<>>

\* stream_conversational_chat: the endpoint looks the session up and hands
\* stream_chat to the StreamingResponse; requests arrive in their order and
\* nothing makes one wait for another
ReqArrives(r) ==
    /\ req_pc[r] = "arriving"
    /\ \A q \in Requests : q < r => req_pc[q] # "arriving"
    /\ req_pc' = [req_pc EXCEPT ![r] = "start"]
    /\ UNCHANGED <<journal, loopVars, batchVars, serviceVars>>

\* stream_chat: add_message(role="user")
ReqAddUserMessage(r) ==
    /\ req_pc[r] = "start"
    /\ messages' = AddMessageRow(messages, "user", 0, 0)
    /\ session' = AddMessageSession(session, 0, 0)
    /\ journal' = Append(journal, JournalEntry(r, "message"))
    /\ req_pc' = [req_pc EXCEPT ![r] = "stream"]
    /\ UNCHANGED <<tools_mode, max_iterations, pc, iteration, tool_uses, tool_idx,
                   tool_results, current_messages, total_input_tokens,
                   total_output_tokens, exec_outcome, pending_apollo_results,
                   tool_executions, icps, events, llm_calls, handler_runs,
                   next_tool_id, batchVars, serviceVars>>

\* execute_and_continue: one client.messages.stream call of the request,
\* answered with a tool_use block or with a final answer
ReqLLMCall(r) ==
    /\ req_pc[r] = "stream"
    /\ llm_calls' = llm_calls + 1
    /\ journal' = Append(journal, JournalEntry(r, "llm_call"))
    /\ \E wantsTool \in BOOLEAN :
          req_pc' = [req_pc EXCEPT
              ![r] = IF wantsTool /\ Len(tool_executions) < MaxToolCalls
                     THEN "execute" ELSE "usage"]
    /\ UNCHANGED <<tools_mode, max_iterations, pc, iteration, tool_uses, tool_idx,
                   tool_results, current_messages, total_input_tokens,
                   total_output_tokens, exec_outcome, pending_apollo_results,
                   tool_executions, session, messages, icps, events,
                   handler_runs, next_tool_id, batchVars, serviceVars>>

\* execute_and_continue: execute_tool for the request's tool_use (a
\* get_session_context call), with its ToolExecution row
ReqExecuteTool(r) ==
    /\ req_pc[r] = "execute"
    /\ tool_executions' = LogToolExecution(tool_executions, GET_SESSION_CONTEXT_TOOL,
                                           Len(tool_executions) + 1, "success", FALSE)
    /\ journal' = Append(journal, JournalEntry(r, "tool_execution"))
    /\ req_pc' = [req_pc EXCEPT ![r] = "stream"]
    /\ UNCHANGED <<tools_mode, max_iterations, pc, iteration, tool_uses, tool_idx,
                   tool_results, current_messages, total_input_tokens,
                   total_output_tokens, exec_outcome, pending_apollo_results,
                   session, messages, icps, events, llm_calls, handler_runs,
                   next_tool_id, batchVars, serviceVars>>

\* stream_chat: the `usage` event of the request's final answer is recorded
\* with add_message(role="assistant")
ReqRecordUsage(r) ==
    /\ req_pc[r] = "usage"
    /\ messages' = AddMessageRow(messages, "assistant", 1, 1)
    /\ session' = AddMessageSession(session, 1, 1)
    /\ journal' = Append(journal, JournalEntry(r, "message"))
    /\ req_pc' = [req_pc EXCEPT ![r] = "end"]
    /\ UNCHANGED <<tools_mode, max_iterations, pc, iteration, tool_uses, tool_idx,
                   tool_results, current_messages, total_input_tokens,
                   total_output_tokens, exec_outcome, pending_apollo_results,
                   tool_executions, icps, events, llm_calls, handler_runs,
                   next_tool_id, batchVars, serviceVars>>

OverlapNext ==
    \/ \E r \in Requests : ReqArrives(r)
    \/ \E r \in Requests : ReqAddUserMessage(r)
    \/ \E r \in Requests : ReqLLMCall(r)
    \/ \E r \in Requests : ReqExecuteTool(r)
    \/ \E r \in Requests : ReqRecordUsage(r)

OverlapSpec == OverlapInit /\ [][OverlapNext]_vars

\* ------------------------------------------------------------------ observations
EventIdx == 1..Len(events)
TerminalTypes == {"done", "error"}
ToolOutcomeTypes == {"tool_complete", "tool_error"}

EventsOfType(type) == {k \in EventIdx : events[k].type = type}

\* indices of the events of the given types that belong to a tool_use id
ToolEvents(types, id) ==
    {k \in EventIdx : events[k].type \in types /\ events[k].tool_use_id = id}

\* rows of the ToolExecution log for a tool_use id
RowsOf(id) ==
    {k \in 1..Len(tool_executions) : tool_executions[k].tool_call_id = id}

\* tool_use ids for which the loop yielded tool_start
DispatchedIds == {events[k].tool_use_id : k \in EventsOfType("tool_start")}

\* the loop is inside the handling of this tool_use
InProgress(id) ==
    /\ pc \in {"execute", "emit"}
    /\ CurrentToolUse.id = id

HasTerminalEvent == \E k \in EventIdx : events[k].type \in TerminalTypes

\* the user turns of the running message list that carry tool results
ToolResultTurns ==
    {m \in 1..Len(current_messages) : current_messages[m].kind = "tool_result"}

\* ------------------------------------------------------------------ claims

\* C1: every user turn's event stream eventually holds a `done` or an
\* `error` event, whatever the LLM calls and the handlers do (each of them
\* returning or raising).
C1_TurnEndsWithDoneOrError == <>HasTerminalEvent

\* a finished turn in which a handler raised, the model asked for more
\* tools up to the cap, and the stream still got its terminal event
C1_Witness ==
    /\ pc = "end"
    /\ HasTerminalEvent
    /\ EventsOfType("tool_error") # {}
    /\ Cardinality(ToolResultTurns) = max_iterations

\* C2: each dispatched tool_use gets exactly one ToolExecution row, with a
\* status, and exactly one of tool_complete / tool_error: none of them
\* twice, never both events, and none missing once the call is handled.
C2_OneRowOneOutcomeEvent ==
    \A id \in DispatchedIds :
        /\ Cardinality(RowsOf(id)) <= 1
        /\ Cardinality(ToolEvents(ToolOutcomeTypes, id)) <= 1
        /\ \A k \in RowsOf(id) : tool_executions[k].status \in {"success", "error"}
        /\ ~InProgress(id) =>
              /\ Cardinality(RowsOf(id)) = 1
              /\ Cardinality(ToolEvents(ToolOutcomeTypes, id)) = 1

\* a finished turn that handled a raising and a returning tool call
C2_Witness ==
    /\ pc = "end"
    /\ EventsOfType("tool_error") # {}
    /\ EventsOfType("tool_complete") # {}

\* C3: a raising tool call does not abort the loop: it gets tool_error and
\* an is_error tool_result under its tool_use id, every tool_use of the
\* same model turn is still dispatched and answered, and the next LLM call
\* is made with those results unless the cap is reached.
C3_ToolErrorDoesNotAbort ==
    /\ \A k \in EventsOfType("tool_error") :
          \/ \E r \in 1..Len(tool_results) :
                tool_results[r] = ToolResultEntry(events[k].tool_use_id, TRUE)
          \/ \E m \in ToolResultTurns : \E r \in 1..Len(current_messages[m].content) :
                current_messages[m].content[r] = ToolResultEntry(events[k].tool_use_id, TRUE)
    /\ \A m \in ToolResultTurns :
          /\ m > 1
          /\ current_messages[m - 1].kind = "tool_use"
          /\ Len(current_messages[m].content) = Len(current_messages[m - 1].content)
          /\ \A r \in 1..Len(current_messages[m - 1].content) :
                LET id == current_messages[m - 1].content[r].tool_use_id
                IN  /\ current_messages[m].content[r].tool_use_id = id
                    /\ id \in DispatchedIds
                    /\ ToolEvents(ToolOutcomeTypes, id) # {}
    /\ pc = "stream" =>
          /\ llm_calls = Cardinality(ToolResultTurns)
          /\ iteration > 1 => current_messages[Len(current_messages)].kind = "tool_result"
    /\ pc = "end" =>
          \/ llm_calls = Cardinality(ToolResultTurns) + 1
          \/ /\ llm_calls = Cardinality(ToolResultTurns)
             /\ llm_calls = max_iterations

\* the LLM is being called again with a tool-result turn whose first entry
\* is an error and whose second entry is the next tool's result
C3_Witness ==
    /\ pc = "stream"
    /\ iteration = 2
    /\ LET last == current_messages[Len(current_messages)]
       IN  /\ last.kind = "tool_result"
           /\ Len(last.content) = 2
           /\ last.content[1].is_error
           /\ ~last.content[2].is_error

\* C4: a model turn without tool_use blocks makes the loop emit one `usage`
\* event carrying the turn's accumulated token totals, then `done`, and
\* nothing after it, at every iteration up to and including max_iterations.
C4_UsageThenDoneThenNothing ==
    \A k \in EventsOfType("done") :
        /\ k = Len(events)
        /\ k > 1
        /\ events[k - 1] = UsageEvent(total_input_tokens, total_output_tokens)
        /\ Cardinality(EventsOfType("usage")) = 1

\* C5: at most max_iterations LLM calls are made in a turn; when the model
\* still asks for tools on call number max_iterations the stream ends with
\* an `error` event and no further LLM call is made.
C5_IterationCap ==
    /\ llm_calls <= max_iterations
    /\ (pc = "end" /\ Cardinality(ToolResultTurns) = max_iterations) =>
          /\ events[Len(events)].type = "error"
          /\ llm_calls = max_iterations

\* the turn ended on the cap after the model asked for tools on every call
C5_Witness ==
    /\ pc = "end"
    /\ max_iterations > 1
    /\ Cardinality(ToolResultTurns) = max_iterations
    /\ llm_calls = max_iterations

\* C6: tool_complete and a ToolExecution of status `success` are produced
\* only when the tool's operation succeeded; a failed operation (its stored
\* output holds an "error") gets tool_error, status `error` and an is_error
\* tool_result.
C6_FailedOperationIsLoggedAsError ==
    \A k \in 1..Len(tool_executions) :
        tool_executions[k].output_error =>
            /\ tool_executions[k].status = "error"
            /\ ToolEvents({"tool_complete"}, tool_executions[k].tool_call_id) = {}

\* C7: a tool name outside self.tools (the catalogue of the orchestrator's
\* mode) is rejected: no handler runs for it and its ToolExecution has
\* status `error`.
C7_OnlyCatalogueToolsRun ==
    \A k \in 1..Len(tool_executions) :
        tool_executions[k].tool_name \notin SelfTools(tools_mode) =>
            /\ tool_executions[k].status = "error"
            /\ tool_executions[k].tool_call_id \notin handler_runs

\* C8: the ToolExecution row of a tool call, with its latency and cost
\* fields, is committed before the call's tool_complete / tool_error event,
\* before the next tool call starts and before the next LLM call.
C8_RowBeforeLoopProceeds ==
    /\ \A id \in DispatchedIds :
          \/ \E k \in RowsOf(id) :
                {"execution_time_ms", "credits_consumed", "cost_usd"}
                    \subseteq DOMAIN tool_executions[k]
          \/ /\ pc = "execute"
             /\ CurrentToolUse.id = id
             /\ ToolEvents(ToolOutcomeTypes, id) = {}
    /\ pc = "stream" => \A id \in DispatchedIds : RowsOf(id) # {}

\* the second tool call of a model turn is starting after a first one that
\* raised, whose row is in the log
C8_Witness ==
    /\ pc = "execute"
    /\ tool_idx = 2
    /\ Len(tool_executions) = 1
    /\ tool_executions[1].status = "error"

\* C9: enrich_companies_batch returns one outcome per input record, at the
\* record's position and with its company id, of status completed, failed
\* or skipped, whichever records fail or raise; and a record's outcome and
\* fields change only in steps of its own task.
C9_BatchTotal ==
    /\ [](batch_pc = "returned" =>
            /\ Len(final_results) = Len(companies)
            /\ \A i \in Tasks :
                  /\ final_results[i].kind = "result"
                  /\ final_results[i].company_id = CompanyId(i)
                  /\ final_results[i].status \in {"completed", "failed", "skipped"})
    /\ [][\A i \in Tasks :
            (results'[i] # results[i] \/ companies'[i] # companies[i])
                => task_pc'[i] # task_pc[i]]_vars

\* a returned batch in which one record raised, one failed and no outcome
\* was lost
C9_Witness ==
    /\ batch_pc = "returned"
    /\ Len(companies) >= 2
    /\ \E i \in Tasks : results[i].kind = "exception"
    /\ \E i \in Tasks : results[i].kind = "result" /\ results[i].status = "failed"

\* records holding the semaphore: inside enrich_company or the sleep after it
InFlight == {i \in Tasks : task_pc[i] \in {"fetch", "sleep"}}

\* C10: with max_concurrent = C >= 1, at most C records are in flight at any
\* instant, in every interleaving of the tasks.
C10_AtMostCInFlight ==
    max_concurrent >= 1 => Cardinality(InFlight) <= max_concurrent

\* the bound is met while another record waits for the semaphore
C10_Witness ==
    /\ max_concurrent >= 1
    /\ Cardinality(InFlight) = max_concurrent
    /\ \E i \in Tasks : task_pc[i] = "acquire"

\* C11: when the website fetch of a record raises (every page fetch timing
\* out or the host being unreachable), enrich_company returns the outcome
\* `failed` and the record's enrichment_status is `failed`.
C11_FetchExceptionGivesFailed ==
    \A i \in Tasks :
        fetch_raised[i] =>
            /\ results[i].status = "failed"
            /\ companies[i].enrichment_status = "failed"

\* C12: with force = False, a record with a website and an enrichment_date
\* less than 7 days old is answered `skipped` with its stored email list,
\* without a website fetch and with its fields unchanged.
C12_RecentRecordIsSkipped ==
    [][\A i \in Tasks :
          (/\ task_pc[i] = "acquire"
           /\ task_pc'[i] # "acquire"
           /\ ~force
           /\ companies[i].website
           /\ IsRecent(companies[i].enrichment_date))
          => /\ results'[i] = EnrichmentResult(CompanyId(i), "skipped",
                                               companies[i].generic_emails)
             /\ task_pc'[i] # "fetch"
             /\ companies'[i] = companies[i]]_vars

\* C13: every email of a record's outcome, and of its stored generic_emails,
\* is of the company's own website domain, whatever contact email the
\* record held before.
C13_OnlyOwnDomainEmails ==
    \A i \in Tasks :
        \A e \in results[i].emails_found \cup companies[i].generic_emails :
            e.domain = WebsiteDomain

\* C14: after a successful search_apollo call of search_type `companies`, an
\* enrich_companies call with company_ids = "all" in the same session takes
\* the company ids of the stored search, runs the enrichment engine and
\* records its outcomes.
C14_EnrichAllUsesStoredSearch ==
    (/\ pc = "emit"
     /\ CurrentToolUse.name = ENRICH_COMPANIES_TOOL
     /\ CurrentToolUse.input = "all"
     /\ session.last_apollo_search.type = "companies")
    => /\ ~exec_outcome.raised
       /\ ~exec_outcome.error
       /\ session.last_enrichment # -1

\* the sum of a token field over the first n ChatMessage rows
RECURSIVE SumTokens(_, _, _)
SumTokens(msgs, field, n) ==
    IF n = 0 THEN 0 ELSE msgs[n][field] + SumTokens(msgs, field, n - 1)

\* C15: after any sequence of add_message calls, the input tokens of the
\* session's messages sum to session.total_claude_input_tokens and their
\* output tokens to session.total_claude_output_tokens.
C15_CountersMatchMessages ==
    /\ SumTokens(messages, "input_tokens", Len(messages))
          = session.total_claude_input_tokens
    /\ SumTokens(messages, "output_tokens", Len(messages))
          = session.total_claude_output_tokens

\* a session holding a user message without tokens and assistant messages
\* with input and with output tokens
C15_Witness ==
    /\ Len(messages) >= 3
    /\ \E i \in 1..Len(messages) :
          messages[i].role = "user" /\ messages[i].input_tokens = 0
    /\ \E i \in 1..Len(messages) :
          messages[i].role = "assistant" /\ messages[i].input_tokens > 0
    /\ session.total_claude_input_tokens > 0
    /\ session.total_claude_output_tokens > 0

\* C17: on a session with at most max_messages messages,
\* get_conversation_context returns one turn per message, in creation
\* order, nothing added, dropped or reordered (the empty list for none).
C17_ShortSessionVerbatim ==
    (context_call.max_messages >= 1 /\ context_call.count <= context_call.max_messages)
    => /\ Len(context) = context_call.count
       /\ \A i \in 1..context_call.count :
             /\ context[i].kind = "text"
             /\ context[i].role = messages[i].role
             /\ context[i].content = messages[i].content

\* the call was made on a session holding exactly max_messages messages,
\* more than one
C17_Witness ==
    /\ context_call.max_messages >= 2
    /\ context_call.count = context_call.max_messages
    /\ Len(context) = context_call.count

\* C18: for every max_messages >= 1, on a session with more than
\* max_messages messages get_conversation_context returns the first
\* message, one summary turn and the most recent max_messages - 1 messages
\* in order, max_messages + 1 turns in all.
C18_LongSessionFirstSummaryRecent ==
    (context_call.max_messages >= 1 /\ context_call.count > context_call.max_messages)
    => LET n == context_call.count
           m == context_call.max_messages
       IN  /\ Len(context) = m + 1
           /\ context[1] = FormatMessage(messages[1])
           /\ context[2].kind = "summary"
           /\ \A j \in 1..(m - 1) :
                 context[2 + j] = FormatMessage(messages[n - (m - 1) + j])

\* C16: the session's token and cost counters change only in a step that
\* appends a message (add_message): the tool handlers with their
\* update_session_metadata calls, the ToolExecution log and archive_session
\* leave them as they are; and no step decreases a counter.
C16_CountersChangeOnlyOnAddMessage ==
    [][/\ (\/ session'.total_claude_input_tokens # session.total_claude_input_tokens
           \/ session'.total_claude_output_tokens # session.total_claude_output_tokens
           \/ session'.total_cost_usd # session.total_cost_usd)
          => Len(messages') = Len(messages) + 1
       /\ session'.total_claude_input_tokens >= session.total_claude_input_tokens
       /\ session'.total_claude_output_tokens >= session.total_claude_output_tokens
       /\ session'.total_cost_usd >= session.total_cost_usd]_vars

\* an archived session with recorded usage, on which a search handler
\* updated the metadata and a tool execution was logged
C16_Witness ==
    /\ session.status = "archived"
    /\ session.total_claude_input_tokens > 0
    /\ session.total_cost_usd > 0
    /\ session.last_apollo_search # NoSearch
    /\ Len(tool_executions) > 0

\* C19: the turns of one session are processed in arrival order: whatever a
\* later request appends, calls or executes comes after everything the
\* earlier request did.
C19_TurnsInArrivalOrder ==
    \A a, b \in 1..Len(journal) :
        a < b => journal[a].request <= journal[b].request

\* C20: when the client disconnects while a tool execution is in flight,
\* the execution still runs to completion and its ToolExecution row is
\* written, and no further event is emitted.
C20_InFlightToolStillLogged ==
    /\ [](pc = "disconnected" => \A id \in DispatchedIds : RowsOf(id) # {})
    /\ [][pc = "disconnected" => events' = events]_vars

\* C21: every dict a tool handler returns, on every return path including
\* the handler's own error returns, holds a `summary` key.
C21_EveryResultHasSummary ==
    (pc = "emit" /\ ~exec_outcome.raised) => exec_outcome.summary

\* C22: save_icp has two outcomes: with name, industry and job_titles all
\* present it creates one profile, links it to the session and clears the
\* draft; with any of them missing it fails, creates no profile and leaves
\* the session's icp_id and draft as they were.
C22_SaveIcpAllOrNothing ==
    [][(/\ pc = "execute"
        /\ pc' # "execute"
        /\ CurrentToolUse.name = SAVE_ICP_TOOL)
       => IF SaveIcpRequired \subseteq SaveIcpGiven(CurrentToolUse.input)
          THEN /\ ~exec_outcome'.raised
               /\ ~exec_outcome'.error
               /\ icps' = icps + 1
               /\ session'.icp_id = icps'
               /\ session'.current_icp_draft = "none"
          ELSE /\ (exec_outcome'.raised \/ exec_outcome'.error)
               /\ icps' = icps
               /\ session'.icp_id = session.icp_id
               /\ session'.current_icp_draft = session.current_icp_draft]_vars

\* C23: a record is `pending` only while its own enrich_company call awaits
\* the finder; once enrich_companies_batch has returned, no record of the
\* batch is `pending`: each one that was marked pending is `completed` or
\* `failed`, whatever the finder returned.
C23_NoRecordLeftPending ==
    /\ \A i \in Tasks :
          companies[i].enrichment_status = "pending" => task_pc[i] = "fetch"
    /\ batch_pc = "returned" =>
          \A i \in Tasks :
              /\ companies[i].enrichment_status # "pending"
              /\ (results[i].kind = "result" /\ results[i].status # "skipped")
                     => companies[i].enrichment_status \in {"completed", "failed"}

\* a returned batch in which one fetched record ended failed (its finder
\* result held an error) and another one completed
C23_Witness ==
    /\ batch_pc = "returned"
    /\ \E i \in Tasks :
          /\ results[i].status = "failed"
          /\ results[i].kind = "result"
          /\ companies[i].enrichment_status = "failed"
    /\ \E i \in Tasks :
          /\ results[i].status = "completed"
          /\ companies[i].enrichment_status = "completed"

\* C24: a user turn's event stream holds exactly one terminal event, `done`
\* or `error`, and it is the stream's last event: no `usage`, `text`, tool
\* event or second `error` follows it, also when the final answer or the
\* LLM's exception comes on iteration max_iterations.
C24_OneTerminalEventLast ==
    /\ \A k \in EventIdx : events[k].type \in TerminalTypes => k = Len(events)
    /\ pc = "end" => HasTerminalEvent

\* C25: after a user turn the session's input and output token totals have
\* grown by exactly the usage the turn's LLM calls reported: counted once,
\* not twice and not left out.
C25_TokensCountedOnce ==
    pc = "end" =>
        /\ session.total_claude_input_tokens = total_input_tokens
        /\ session.total_claude_output_tokens = total_output_tokens

\* C26: enrich_companies_batch eventually returns, for every finite batch
\* and every max_concurrent the enrich_companies tool passes through (0
\* included), every website fetch ending: no task waits on the semaphore
\* for ever.
C26_BatchEventuallyReturns == <>(batch_pc = "returned")

\* C27: for a company that held no contact email before its first
\* enrichment, enrichment_source is never `apollo` nor `both`, after any
\* sequence of enrich_company calls, forced or not.
C27_SourceOfScrapedOnlyRecord ==
    (enrich_calls # <<>> /\ enrich_calls[1].email_before = NoEmail)
    => companies[1].enrichment_source \notin {"apollo", "both"}

\* C28: after an attempt that ended `failed`, the next enrich_company call
\* with force = False fetches the website again: it is not answered
\* `skipped` as recently enriched.
C28_FailedRecordIsFetchedAgain ==
    \A k \in 1..Len(enrich_calls) :
        (/\ enrich_calls[k].status_before = "failed"
         /\ ~enrich_calls[k].force)
        => enrich_calls[k].path = "fetch"

\* the tool_result entries of the running message list that answer a
\* tool_use id, as pairs of turn and position
ResultsFor(id) ==
    {<<m, r>> \in ToolResultTurns \X (1..MaxToolCalls) :
        /\ r <= Len(current_messages[m].content)
        /\ current_messages[m].content[r].tool_use_id = id}

\* the tool_use ids of the assistant turns of the running message list
SentToolUseIds ==
    UNION {{current_messages[m].content[r].tool_use_id :
                r \in 1..Len(current_messages[m].content)} :
           m \in {n \in 1..Len(current_messages) : current_messages[n].kind = "tool_use"}}

\* C29: an iteration in which the model asked for k >= 1 tools appends
\* exactly two turns to the running message list: the assistant turn with
\* the model's blocks, then one user turn with exactly k tool_result
\* entries, one per tool_use id and in the order asked, failed calls
\* included; within the loop the list changes in no other way, so every
\* tool_use id sent back has exactly one tool_result.
C29_TwoTurnsPerToolIteration ==
    /\ [][(pc = "for" /\ pc' # "execute") =>
            LET n == Len(current_messages)
                k == Len(tool_uses)
            IN  /\ k >= 1
                /\ Len(current_messages') = n + 2
                /\ SubSeq(current_messages', 1, n) = current_messages
                /\ current_messages'[n + 1].role = "assistant"
                /\ current_messages'[n + 1].kind = "tool_use"
                /\ current_messages'[n + 2].role = "user"
                /\ current_messages'[n + 2].kind = "tool_result"
                /\ Len(current_messages'[n + 1].content) = k
                /\ Len(current_messages'[n + 2].content) = k
                /\ \A j \in 1..k :
                      /\ current_messages'[n + 1].content[j].tool_use_id = tool_uses[j].id
                      /\ current_messages'[n + 2].content[j].tool_use_id = tool_uses[j].id
                      /\ current_messages'[n + 2].content[j].is_error
                            = (ToolEvents({"tool_error"}, tool_uses[j].id) # {})]_vars
    /\ [][(pc \notin {"start", "for"}) => current_messages' = current_messages]_vars
    /\ [](\A id \in SentToolUseIds : Cardinality(ResultsFor(id)) = 1)

\* the two turns of an iteration with two tools were just appended: the
\* first tool had succeeded and the second one failed
C29_Witness ==
    /\ pc = "while"
    /\ Len(current_messages) = 3
    /\ current_messages[2].kind = "tool_use"
    /\ Len(current_messages[2].content) = 2
    /\ current_messages[3].kind = "tool_result"
    /\ Len(current_messages[3].content) = 2
    /\ ~current_messages[3].content[1].is_error
    /\ current_messages[3].content[2].is_error

====
